---- MODULE Spec2Model ----
(***************************************************************************)
(* Model of the archive extraction tool of dify_tool_plugin:               *)
(*   unzip_file/tools/unzip_file.py, class UnzipFileTool.                  *)
(*                                                                         *)
(* Strings that the code inspects character by character (file names,      *)
(* member names, paths) are sequences of one-character strings; file       *)
(* contents are sequences of byte values 0..255.                           *)
(***************************************************************************)
EXTENDS Integers, Sequences, FiniteSets, TLC

(***************************************************************************)
(* Sequence helpers: the str / bytes primitives the code uses.             *)
(***************************************************************************)
Min(a, b) == IF a <= b THEN a ELSE b

\* s[:n]
Take(s, n) == SubSeq(s, 1, Min(n, Len(s)))

\* s[a:b] with Python's 0-based, end-exclusive, clamped slice
Slice(s, a, b) == SubSeq(s, Min(a, Len(s)) + 1, Min(b, Len(s)))

\* s.startswith(p)
StartsWith(s, p) == Len(p) <= Len(s) /\ SubSeq(s, 1, Len(p)) = p

\* s.endswith(p)
EndsWith(s, p) == Len(p) <= Len(s) /\ SubSeq(s, Len(s) - Len(p) + 1, Len(s)) = p

\* p in s
Contains(s, p) == \E i \in 1..(Len(s) - Len(p) + 1) : SubSeq(s, i, i + Len(p) - 1) = p

\* one character of str.lower()
LowerChar(c) ==
    CASE c = "X" -> "x" [] c = "Z" -> "z" [] c = "I" -> "i" [] c = "P" -> "p"
      [] OTHER -> c

\* str.lower()
Lower(s) == [i \in 1..Len(s) |-> LowerChar(s[i])]

\* index of the last "/" of a path, 0 when there is none
LastSlash(p) == IF \E i \in 1..Len(p) : p[i] = "/"
                THEN CHOOSE i \in 1..Len(p) : p[i] = "/" /\ \A j \in (i+1)..Len(p) : p[j] # "/"
                ELSE 0

\* os.path.basename
Basename(p) == SubSeq(p, LastSlash(p) + 1, Len(p))

(***************************************************************************)
(* Signatures and thresholds of _detect_file_type.                         *)
(***************************************************************************)
HeaderLen == 20
UstarOffset == 257
UstarEnd == 262
SizeGate == 100
DeepLen == 4096

MagicZipLocal == <<80, 75, 3, 4>>
MagicZipEnd   == <<80, 75, 5, 6>>
MagicZipSpan  == <<80, 75, 7, 8>>
MagicRar      == <<82, 97, 114, 33, 26, 7>>
Magic7z       == <<55, 122, 188, 175, 39, 28>>
MagicGzip     == <<31, 139>>
MagicBz2      == <<66, 90, 104>>
Ustar         == <<117, 115, 116, 97, 114>>
SigZipCentral == <<80, 75, 1, 2>>
SigRarVolume  == <<82, 97, 114, 33>>

SufTar    == <<".", "t", "a", "r">>
SufTarGz  == <<".", "t", "a", "r", ".", "g", "z">>
SufTgz    == <<".", "t", "g", "z">>
SufTarBz2 == <<".", "t", "a", "r", ".", "b", "z", "2">>
SufTbz2   == <<".", "t", "b", "z", "2">>
SufZip    == <<".", "z", "i", "p">>
SufRar    == <<".", "r", "a", "r">>
Suf7z     == <<".", "7", "z">>

\* The readers tried by the trial-open fallback, in the order of the code.
Libs == <<"zip", "rar", "7z", "tar">>

(***************************************************************************)
(* The trial-open fallback.  probe[lib] is what opening the file with      *)
(* that library does: "entries" (opens and lists at least one entry),      *)
(* "empty" (opens, lists nothing), "error" (raises; every exception is     *)
(* swallowed).  The result is the verdict and the trace of what was        *)
(* opened; "deep" is the 4096-byte content scan.                           *)
(***************************************************************************)
FirstHit(probe) ==
    IF \E i \in 1..Len(Libs) : probe[Libs[i]] = "entries"
    THEN CHOOSE i \in 1..Len(Libs) :
            /\ probe[Libs[i]] = "entries"
            /\ \A j \in 1..(i-1) : probe[Libs[j]] # "entries"
    ELSE 0

DeepScan(content) ==
    LET c == Take(content, DeepLen)
    IN  IF Contains(c, SigZipCentral) THEN "zip"
        ELSE IF Contains(c, SigRarVolume) THEN "rar"
        ELSE "unknown"

TrialOpen(content, probe) ==
    LET hit == FirstHit(probe)
    IN  IF hit > 0
        THEN [type |-> Libs[hit], probes |-> SubSeq(Libs, 1, hit)]
        ELSE [type |-> DeepScan(content), probes |-> Libs \o <<"deep">>]

\* What f.read(20) returns.
ReadHeader(content) == Take(content, HeaderLen)

\* The "ustar" test of the tar rule, on the header that was read.
UstarInHeader(header) ==
    Len(header) > UstarOffset /\ Contains(Slice(header, UstarOffset, UstarEnd), Ustar)

(***************************************************************************)
(* _detect_file_type(file_path): the verdict and the probes performed.     *)
(* The if / elif chain of lines 99-133 in its order: the magic prefixes,   *)
(* then the name (and "ustar") rules; the else branch is the size gate     *)
(* and the trial-opens.                                                    *)
(***************************************************************************)
\* lines 99-118, with only the local-header signature accepted for zip
MagicVerdictLocalOnly(header, file_name) ==
    IF StartsWith(header, MagicZipLocal) THEN "zip"
    ELSE IF StartsWith(header, MagicRar) THEN "rar"
    ELSE IF StartsWith(header, Magic7z) THEN "7z"
    ELSE IF StartsWith(header, MagicGzip)
         THEN IF EndsWith(file_name, SufTarGz) \/ EndsWith(file_name, SufTgz)
              THEN "tar.gz" ELSE "gzip"
    ELSE IF StartsWith(header, MagicBz2)
         THEN IF EndsWith(file_name, SufTarBz2) \/ EndsWith(file_name, SufTbz2)
              THEN "tar.bz2" ELSE "bz2"
    ELSE "none"

\* lines 99-118
MagicVerdict(header, file_name) ==
    IF \/ StartsWith(header, MagicZipLocal)
       \/ StartsWith(header, MagicZipEnd)
       \/ StartsWith(header, MagicZipSpan) THEN "zip"
    ELSE IF StartsWith(header, MagicRar) THEN "rar"
    ELSE IF StartsWith(header, Magic7z) THEN "7z"
    ELSE IF StartsWith(header, MagicGzip)
         THEN IF EndsWith(file_name, SufTarGz) \/ EndsWith(file_name, SufTgz)
              THEN "tar.gz" ELSE "gzip"
    ELSE IF StartsWith(header, MagicBz2)
         THEN IF EndsWith(file_name, SufTarBz2) \/ EndsWith(file_name, SufTbz2)
              THEN "tar.bz2" ELSE "bz2"
    ELSE "none"

\* lines 121-133
NameVerdict(header, file_name) ==
    IF EndsWith(file_name, SufTar) \/ UstarInHeader(header) THEN "tar"
    ELSE IF EndsWith(file_name, SufTarGz) \/ EndsWith(file_name, SufTgz) THEN "tar.gz"
    ELSE IF EndsWith(file_name, SufTarBz2) \/ EndsWith(file_name, SufTbz2) THEN "tar.bz2"
    ELSE IF EndsWith(file_name, SufZip) THEN "zip"
    ELSE IF EndsWith(file_name, SufRar) THEN "rar"
    ELSE IF EndsWith(file_name, Suf7z) THEN "7z"
    ELSE "none"

\* lines 134-201, without the size gate
FallbackUngated(content, probe) == TrialOpen(content, probe)

\* lines 134-201; Len(content) is os.path.getsize(file_path)
Fallback(content, probe) ==
    IF Len(content) < SizeGate THEN [type |-> "unknown", probes |-> <<>>]
    ELSE TrialOpen(content, probe)

DetectFileType(file_path, content, probe) ==
    LET file_name == Lower(Basename(file_path))
        header    == ReadHeader(content)
        magic     == MagicVerdict(header, file_name)
        named     == NameVerdict(header, file_name)
    IN  IF magic # "none" THEN [type |-> magic, probes |-> <<>>]
        ELSE IF named # "none" THEN [type |-> named, probes |-> <<>>]
        ELSE Fallback(content, probe)

(***************************************************************************)
(* Path functions of os.path (posixpath) that the code calls.              *)
(***************************************************************************)
IsAbs(p) == Len(p) > 0 /\ p[1] = "/"

\* os.path.join(a, b)
Join(a, b) ==
    IF IsAbs(b) THEN b
    ELSE IF a = <<>> \/ a[Len(a)] = "/" THEN a \o b
    ELSE a \o <<"/">> \o b

FirstSlash(p) == IF \E i \in 1..Len(p) : p[i] = "/"
                 THEN CHOOSE i \in 1..Len(p) : p[i] = "/" /\ \A j \in 1..(i-1) : p[j] # "/"
                 ELSE 0

\* p.split("/")
RECURSIVE SplitSlash(_)
SplitSlash(p) ==
    LET i == FirstSlash(p)
    IN  IF i = 0 THEN <<p>>
        ELSE <<SubSeq(p, 1, i - 1)>> \o SplitSlash(SubSeq(p, i + 1, Len(p)))

\* "/".join(comps)
RECURSIVE JoinSlash(_)
JoinSlash(comps) ==
    IF comps = <<>> THEN <<>>
    ELSE IF Len(comps) = 1 THEN comps[1]
    ELSE comps[1] \o <<"/">> \o JoinSlash(Tail(comps))

DotDot == <<".", ".">>

\* the component loop of posixpath.normpath
RECURSIVE NormFold(_, _, _)
NormFold(comps, acc, initial) ==
    IF comps = <<>> THEN acc
    ELSE LET c == Head(comps)
         IN  IF c = <<>> \/ c = <<".">> THEN NormFold(Tail(comps), acc, initial)
             ELSE IF \/ c # DotDot
                     \/ (~initial /\ acc = <<>>)
                     \/ (acc # <<>> /\ acc[Len(acc)] = DotDot)
                  THEN NormFold(Tail(comps), Append(acc, c), initial)
             ELSE IF acc # <<>>
                  THEN NormFold(Tail(comps), SubSeq(acc, 1, Len(acc) - 1), initial)
             ELSE NormFold(Tail(comps), acc, initial)

\* os.path.normpath (paths with exactly two leading slashes do not occur here)
NormPath(p) ==
    LET initial == IsAbs(p)
        body    == JoinSlash(NormFold(SplitSlash(p), <<>>, initial))
        r       == IF initial THEN <<"/">> \o body ELSE body
    IN  IF r = <<>> THEN <<".">> ELSE r

\* the process's working directory, used by abspath for relative paths
Cwd == <<"/", "w">>

\* os.path.abspath
AbsPath(p) == NormPath(IF IsAbs(p) THEN p ELSE Join(Cwd, p))

\* os.path.commonprefix([a, b]): the longest common prefix, character by character
RECURSIVE CommonPrefix(_, _)
CommonPrefix(a, b) ==
    IF a = <<>> \/ b = <<>> \/ Head(a) # Head(b) THEN <<>>
    ELSE <<Head(a)>> \o CommonPrefix(Tail(a), Tail(b))

\* is_within_directory(directory, target) of _extract_tar
is_within_directory(directory, target) ==
    LET abs_directory == AbsPath(directory)
        abs_target    == AbsPath(target)
        prefix        == CommonPrefix(abs_directory, abs_target)
    IN  prefix = abs_directory

(***************************************************************************)
(* Bounds of the model.                                                    *)
(***************************************************************************)
\* the largest number of members of a modelled archive
MaxMembers == 3

(***************************************************************************)
(* Archives.  A member is what the extractors read of a catalog entry:     *)
(* its stored name, its kind, its permission bits (tar only: "rw" owner    *)
(* may read and write, "ro" owner may not write, "none" no permission),    *)
(* its general purpose flag bits (zip only) and its content.               *)
(***************************************************************************)
Mem(name, kind, mode, flag_bits, data) ==
    [name |-> name, kind |-> kind, mode |-> mode, flag_bits |-> flag_bits, data |-> data]

NameA       == <<"a">>
NameB       == <<"b">>
NameD       == <<"d">>
NameDB      == <<"d", "/", "b">>
NameSibling == <<".", ".", "/", "e", "x", "t", "r", "a", "c", "t", "e", "d", "-", "e", "v", "i", "l", "/", "a">>
NameUp      == <<".", ".", "/", "a">>
NameAbs     == <<"/", "a">>

TarMembers ==
    { Mem(NameA, "file", "rw", 0, <<104, 105>>),
      Mem(NameDB, "file", "rw", 0, <<1, 2, 3>>),
      Mem(NameD, "dir", "rw", 0, <<>>),
      Mem(NameD, "dir", "ro", 0, <<>>),
      Mem(NameB, "file", "none", 0, <<7>>),
      Mem(NameSibling, "file", "rw", 0, <<66>>),
      Mem(NameUp, "file", "rw", 0, <<67>>),
      Mem(NameAbs, "file", "rw", 0, <<68>>) }

\* flag bit 0 is the encryption flag; 2 is a compression option, 8 the data
\* descriptor flag, 2048 the UTF-8 name flag
ZipMembers ==
    { Mem(NameA, "file", "rw", 0, <<104, 105>>),
      Mem(NameDB, "file", "rw", 2048, <<1, 2, 3>>),
      Mem(NameD, "dir", "rw", 0, <<>>),
      Mem(NameB, "file", "rw", 1, <<7>>),
      Mem(NameB, "file", "rw", 9, <<7>>),
      Mem(NameB, "file", "rw", 2, <<7>>) }

PlainMembers ==
    { Mem(NameA, "file", "rw", 0, <<104, 105>>),
      Mem(NameD, "dir", "rw", 0, <<>>) }

DistinctNames(s) == \A i, j \in 1..Len(s) : i # j => s[i].name # s[j].name

\* the member lists of at most MaxMembers members, no stored name twice
Catalogs(S) ==
    { s \in UNION { [1..k -> S] : k \in 0..MaxMembers } : DistinctNames(s) }

Blob(fmt, members, corrupt, needs_password) ==
    [fmt |-> fmt, members |-> members, corrupt |-> corrupt,
     needs_password |-> needs_password]

\* the archive contents a caller may hand in as file.blob
Blobs ==
    { Blob("zip", m, FALSE, FALSE) : m \in Catalogs(ZipMembers) }
      \cup { Blob("tar", m, FALSE, FALSE) : m \in Catalogs(TarMembers) }
      \cup { Blob("tar.gz", m, FALSE, FALSE) : m \in Catalogs(TarMembers) }
      \cup { Blob(f, m, FALSE, pw) :
                f \in {"rar", "7z"}, m \in Catalogs(PlainMembers), pw \in BOOLEAN }
      \cup { Blob(f, <<>>, TRUE, FALSE) : f \in {"zip", "rar", "7z"} }
      \cup { Blob(f, <<>>, FALSE, FALSE) : f \in {"junk-small", "junk-large"} }

\* the name the caller gives with a blob (File.filename)
FilenameOf(b) ==
    CASE b.fmt = "zip"    -> <<"x", ".", "z", "i", "p">>
      [] b.fmt = "tar"    -> <<"x", ".", "t", "a", "r">>
      [] b.fmt = "tar.gz" -> <<"x", ".", "t", "a", "r", ".", "g", "z">>
      [] b.fmt = "rar"    -> <<"x", ".", "r", "a", "r">>
      [] b.fmt = "7z"     -> <<"x", ".", "7", "z">>
      [] OTHER            -> <<"x", ".", "b", "i", "n">>

\* tool_parameters.get('file'): nothing, a value that is no File, or a File
NoFile  == [type |-> "none"]
NotFile == [type |-> "str"]
Params  ==
    {NoFile, NotFile}
      \cup { [type |-> "File", blob |-> b, filename |-> FilenameOf(b)] : b \in Blobs }

(***************************************************************************)
(* The bytes of a blob, as far as detection reads them (the first 20       *)
(* bytes, the size, the first 4096 bytes), and what each reader makes of   *)
(* the blob when it is trial-opened.                                       *)
(***************************************************************************)
Ord(c) ==
    CASE c = "a" -> 97 [] c = "b" -> 98 [] c = "d" -> 100 [] c = "." -> 46
      [] c = "/" -> 47 [] c = "e" -> 101 [] c = "x" -> 120 [] c = "t" -> 116
      [] c = "r" -> 114 [] c = "c" -> 99 [] c = "-" -> 45 [] c = "v" -> 118
      [] c = "i" -> 105 [] c = "l" -> 108 [] OTHER -> 63

Padded(prefix, size) == [i \in 1..size |-> IF i <= Len(prefix) THEN prefix[i] ELSE 0]

\* local headers (30 bytes each), central directory (46 each), end record (22)
ZipBytes(members) ==
    LET n == Len(members)
    IN  [i \in 1..(76 * n + 22) |->
            LET local   == i <= 30 * n
                central == ~local /\ i <= 76 * n
                off     == IF local THEN (i - 1) % 30
                           ELSE IF central THEN (i - 30 * n - 1) % 46
                           ELSE i - 76 * n - 1
                sig     == IF local THEN MagicZipLocal
                           ELSE IF central THEN SigZipCentral ELSE MagicZipEnd
            IN  IF off < 4 THEN sig[off + 1] ELSE 0]

\* per member a 512-byte header (name at 0, "ustar" at 257) and a data block,
\* then two zero blocks
TarBytes(members) ==
    LET n == Len(members)
    IN  [i \in 1..(1024 * n + 1024) |->
            LET blk == (i - 1) \div 512
                off == (i - 1) % 512
                m   == blk \div 2 + 1
            IN  IF m > n THEN 0
                ELSE IF blk % 2 = 0
                     THEN IF off < Len(members[m].name) THEN Ord(members[m].name[off + 1])
                          ELSE IF off >= 257 /\ off < 262 THEN Ustar[off - 256]
                          ELSE 0
                ELSE IF off < Len(members[m].data) THEN members[m].data[off + 1]
                ELSE 0]

BlobBytes(b) ==
    CASE b.fmt = "zip" /\ ~b.corrupt -> ZipBytes(b.members)
      [] b.fmt = "zip" /\ b.corrupt  -> Padded(MagicZipLocal, 120)
      [] b.fmt = "tar"               -> TarBytes(b.members)
      [] b.fmt = "tar.gz"            -> Padded(MagicGzip \o <<8>>, 120)
      [] b.fmt = "rar"               -> Padded(MagicRar \o <<0>>, 120)
      [] b.fmt = "7z"                -> Padded(Magic7z \o <<0, 4>>, 120)
      [] b.fmt = "junk-small"        -> Padded(<<>>, 50)
      [] OTHER                       -> Padded(<<>>, 200)

Listing(members) == IF members = <<>> THEN "empty" ELSE "entries"

\* what zipfile / rarfile / py7zr / tarfile make of the blob
BlobProbe(b) ==
    [lib \in {"zip", "rar", "7z", "tar"} |->
        IF b.corrupt THEN "error"
        ELSE IF lib = b.fmt \/ (lib = "tar" /\ b.fmt = "tar.gz") THEN Listing(b.members)
        ELSE "error"]

(***************************************************************************)
(* Inputs of the detection specification: a file path, a content and the   *)
(* outcome of each trial-open.                                             *)
(***************************************************************************)
DetectNames ==
    { <<"/", "t", "/", "c", "o", "m", "p", "r", "e", "s", "s", "e", "d", "_", "f", "i", "l", "e">>,
      <<"/", "t", "/", "x", ".", "z", "i", "p">>,
      <<"/", "t", "/", "x", ".", "r", "a", "r">>,
      <<"/", "t", "/", "x", ".", "7", "z">>,
      <<"/", "t", "/", "x", ".", "t", "a", "r">>,
      <<"/", "t", "/", "x", ".", "t", "a", "r", ".", "g", "z">>,
      <<"/", "t", "/", "x", ".", "t", "g", "z">>,
      <<"/", "t", "/", "x", ".", "t", "a", "r", ".", "b", "z", "2">>,
      <<"/", "t", "/", "x", ".", "t", "b", "z", "2">>,
      <<"/", "t", "/", "x", ".", "b", "i", "n">>,
      <<"/", "t", "/", "X", ".", "Z", "I", "P">>,
      <<"/", "t", "/", "x", "t", "a", "r">>,
      <<"/", "t", "/", "x", ".", "g", "z">> }

DetectPrefixes ==
    { <<>>, MagicZipLocal, MagicZipEnd, MagicZipSpan, MagicRar, Magic7z, MagicGzip,
      MagicBz2, SigZipCentral, SigRarVolume, <<80, 75>> }

DetectSizes == {2, 50, 99, 100, 261, 262, 300}

\* a content: a prefix, zero filling, optionally "ustar" at offset 257 and a
\* signature at offset 40
Content(prefix, size, ustar, sig) ==
    [i \in 1..size |->
        IF i <= Len(prefix) THEN prefix[i]
        ELSE IF ustar /\ i > UstarOffset /\ i <= UstarEnd THEN Ustar[i - UstarOffset]
        ELSE IF i > 40 /\ i <= 40 + Len(sig) THEN sig[i - 40]
        ELSE 0]

DetectContents ==
    { Content(p, n, u, g) :
        p \in DetectPrefixes, n \in DetectSizes, u \in BOOLEAN,
        g \in {<<>>, SigZipCentral, SigRarVolume} }

Probe(z, r, s, t) == [lib \in {"zip", "rar", "7z", "tar"} |->
    CASE lib = "zip" -> z [] lib = "rar" -> r [] lib = "7z" -> s [] OTHER -> t]

DetectProbes ==
    { Probe("error", "error", "error", "error"),
      Probe("entries", "error", "error", "error"),
      Probe("empty", "entries", "error", "error"),
      Probe("error", "empty", "entries", "error"),
      Probe("error", "error", "empty", "entries"),
      Probe("error", "error", "error", "empty"),
      Probe("error", "entries", "error", "entries") }

Evidence ==
    { [path |-> p, content |-> c, probe |-> o] :
        p \in DetectNames, c \in DetectContents, o \in DetectProbes }

(***************************************************************************)
(* The file system under the temporary directory.  disk lists what was     *)
(* created, in creation order: path (absolute, normalised), kind, mode,    *)
(* content, and the index of the archive member that was written there     *)
(* (0: the staged file, or a parent directory made on the way).            *)
(***************************************************************************)
Root       == <<"/">>
TmpRoot    == <<"/", "t", "m", "p">>
\* what tempfile.mkdtemp() returns
TempDir    == <<"/", "t", "m", "p", "/", "k">>
StagedName == <<"c", "o", "m", "p", "r", "e", "s", "s", "e", "d", "_", "f", "i", "l", "e">>
ExtractName == <<"e", "x", "t", "r", "a", "c", "t", "e", "d">>

temp_file_path == Join(TempDir, StagedName)
extract_dir    == Join(TempDir, ExtractName)

\* directories that exist without being listed in disk
BaseDirs == {Root, TmpRoot, TempDir, extract_dir}

\* os.path.dirname
Parent(path) == IF LastSlash(path) <= 1 THEN Root ELSE SubSeq(path, 1, LastSlash(path) - 1)

RECURSIVE Ancestors(_)
Ancestors(path) ==
    IF path = Root \/ Parent(path) = Root THEN <<>>
    ELSE Append(Ancestors(Parent(path)), Parent(path))

\* path components at a directory boundary: is path dir itself or below it
Below(dir, path) == path = dir \/ StartsWith(path, dir \o <<"/">>)

IndexOf(disk, path) ==
    IF \E i \in 1..Len(disk) : disk[i].path = path
    THEN CHOOSE i \in 1..Len(disk) : disk[i].path = path
    ELSE 0

\* may the process create or delete entries in directory dir
DirWritable(disk, dir, privileged) ==
    \/ privileged
    \/ dir \in BaseDirs /\ dir # Root
    \/ IndexOf(disk, dir) > 0 /\ disk[IndexOf(disk, dir)].mode = "rw"

Entry(path, kind, mode, data, member) ==
    [path |-> path, kind |-> kind, mode |-> mode, data |-> data, member |-> member]

\* Writing member m (the idx-th of its archive) below root, as tarfile's
\* extract and the extractall of zipfile / rarfile / py7zr do: missing parent
\* directories are made, the entry is created (an existing directory is
\* kept), and with set_attrs the member's mode is applied.  ok is FALSE when
\* the process may not write there (PermissionError).
WriteMember(disk, root, m, idx, privileged, set_attrs) ==
    LET target  == NormPath(Join(root, m.name))
        missing == SelectSeq(Ancestors(target),
                             LAMBDA d : d \notin BaseDirs /\ IndexOf(disk, d) = 0)
        at      == IndexOf(disk, target)
        first   == IF missing # <<>> THEN Parent(missing[1]) ELSE Parent(target)
        mode    == IF set_attrs THEN m.mode ELSE "rw"
        made    == [i \in 1..Len(missing) |-> Entry(missing[i], "dir", "rw", <<>>, 0)]
    IN  IF at > 0
        THEN [ok |-> TRUE,
              disk |-> [disk EXCEPT ![at] = Entry(target, m.kind, mode, m.data, idx)]]
        ELSE IF ~DirWritable(disk, first, privileged)
        THEN [ok |-> FALSE, disk |-> disk]
        ELSE [ok |-> TRUE,
              disk |-> disk \o made \o <<Entry(target, m.kind, mode, m.data, idx)>>]

\* info.flag_bits & 0x1
IsEncrypted(info) == info.flag_bits % 2 = 1

\* extractall(extract_dir) of zipfile, rarfile and py7zr: the members in
\* catalog order; an encrypted zip member cannot be read without a password
RECURSIVE ExtractAll(_, _, _, _)
ExtractAll(members, i, disk, privileged) ==
    IF i > Len(members) THEN [exc |-> "none", disk |-> disk]
    ELSE IF IsEncrypted(members[i]) THEN [exc |-> "password required", disk |-> disk]
    ELSE LET w == WriteMember(disk, extract_dir, members[i], i, privileged, FALSE)
         IN  IF ~w.ok THEN [exc |-> "permission", disk |-> disk]
             ELSE ExtractAll(members, i + 1, w.disk, privileged)

\* the scan of _extract_zip over infolist()
ZipScanFirstOnly(members) == members # <<>> /\ IsEncrypted(members[1])

ZipScan(members) == \E i \in 1..Len(members) : IsEncrypted(members[i])

\* _extract_zip(file_path, extract_dir)
extract_zip(blob, disk, privileged) ==
    IF blob.corrupt THEN [exc |-> "corrupt", disk |-> disk]
    ELSE IF ZipScan(blob.members) THEN [exc |-> "password", disk |-> disk]
    ELSE ExtractAll(blob.members, 1, disk, privileged)

\* _extract_rar and _extract_7z: the archive-level password flag, then extractall
extract_flagged(blob, disk, privileged) ==
    IF blob.corrupt THEN [exc |-> "corrupt", disk |-> disk]
    ELSE IF blob.needs_password THEN [exc |-> "password", disk |-> disk]
    ELSE ExtractAll(blob.members, 1, disk, privileged)

\* one iteration of safe_extract's loop over tar.getmembers()
SafeExtractWriteFirst(members, i, disk, privileged) ==
    LET member_path == Join(extract_dir, members[i].name)
        w == WriteMember(disk, extract_dir, members[i], i, privileged, TRUE)
    IN  IF ~w.ok THEN [exc |-> "permission", disk |-> disk]
        ELSE IF ~is_within_directory(extract_dir, member_path)
        THEN [exc |-> "traversal", disk |-> w.disk]
        ELSE [exc |-> "none", disk |-> w.disk]

SafeExtractMember(members, i, disk, privileged) ==
    LET member_path == Join(extract_dir, members[i].name)
    IN  IF ~is_within_directory(extract_dir, member_path)
        THEN [exc |-> "traversal", disk |-> disk]
        ELSE LET w == WriteMember(disk, extract_dir, members[i], i, privileged, TRUE)
             IN  IF ~w.ok THEN [exc |-> "permission", disk |-> disk]
                 ELSE [exc |-> "none", disk |-> w.disk]

(***************************************************************************)
(* _get_file_list(directory): os.walk top-down; in each directory the      *)
(* files, then the sub-directories, then the walk of each sub-directory.   *)
(***************************************************************************)
\* os.path.relpath(path, directory) of a path below directory
RelPath(path, directory) == SubSeq(path, Len(directory) + 2, Len(path))

RECURSIVE Flatten(_)
Flatten(ss) == IF ss = <<>> THEN <<>> ELSE Head(ss) \o Flatten(Tail(ss))

RECURSIVE Walk(_, _, _)
Walk(disk, root, directory) ==
    LET files == SelectSeq(disk, LAMBDA e : e.kind = "file" /\ Parent(e.path) = root)
        dirs  == SelectSeq(disk, LAMBDA e : e.kind = "dir" /\ Parent(e.path) = root)
        file_info(e) == [name |-> Basename(e.path), path |-> RelPath(e.path, directory),
                         size |-> Len(e.data), type |-> "file"]
        dir_info(e)  == [name |-> Basename(e.path), path |-> RelPath(e.path, directory),
                         type |-> "directory"]
    IN  [i \in 1..Len(files) |-> file_info(files[i])]
          \o [i \in 1..Len(dirs) |-> dir_info(dirs[i])]
          \o Flatten([i \in 1..Len(dirs) |-> Walk(disk, dirs[i].path, directory)])

get_file_list(disk, directory) == Walk(disk, directory, directory)

\* Path(file_path).read_bytes(): the content, unless the process may not read
ReadBytes(disk, path, privileged) ==
    LET e == disk[IndexOf(disk, path)]
    IN  IF e.mode = "none" /\ ~privileged THEN [ok |-> FALSE, data |-> <<>>]
        ELSE [ok |-> TRUE, data |-> e.data]

\* shutil.rmtree(temp_dir, ignore_errors=True): what is left.  An entry in a
\* directory the process may not write to cannot be unlinked; it and the
\* directories above it stay.
RmtreeRest(disk, privileged) ==
    LET stuck == { i \in 1..Len(disk) : ~DirWritable(disk, Parent(disk[i].path), privileged) }
        kept  == { i \in 1..Len(disk) : \E j \in stuck : Below(disk[i].path, disk[j].path) }
    IN  SelectSeq(disk, LAMBDA e : \E i \in kept : disk[i] = e)

(***************************************************************************)
(* State.                                                                  *)
(*   pc         where the generator _invoke stands: "start" before the     *)
(*              first resume, "y_..." suspended at a yield, "dispatch",    *)
(*              "tar" and "listed" inside one run between two yields,      *)
(*              "returned" / "raised" / "closed" once it is over           *)
(*   param      tool_parameters.get('file')                                *)
(*   privileged whether the process may bypass file permissions (root)     *)
(*   tempCreated, tempExists   mkdtemp was called; the directory exists    *)
(*   file_type  the verdict of _detect_file_type on the staged file        *)
(*   disk       the entries under the temporary directory                  *)
(*   next       the index of the tar member safe_extract is at             *)
(*   file_list, idx   the manifest and the position of the result loop     *)
(*   out        the messages yielded so far                                *)
(*   error      the exception the except clause caught ("none": none)      *)
(*   raised     the number of errors raised to the caller                  *)
(*   rmtrees    the number of runs of the finally clause                   *)
(*   ev, verdict   the detection specification's input and result          *)
(***************************************************************************)
VARIABLES pc, param, privileged, tempCreated, tempExists, file_type, disk, next,
          file_list, idx, out, error, raised, rmtrees, ev, verdict

vars == <<pc, param, privileged, tempCreated, tempExists, file_type, disk, next,
          file_list, idx, out, error, raised, rmtrees, ev, verdict>>

NoEvidence == [path |-> <<>>, content |-> <<>>, probe |-> Probe("error", "error", "error", "error")]
NoVerdict  == [type |-> "none", probes |-> <<>>]

\* create_text_message / create_blob_message
Text(tag, n) == [kind |-> "text", tag |-> tag, n |-> n]
BlobMessage(data, filename) ==
    [kind |-> "blob", blob |-> data, filename |-> filename, mime_type |-> "XLSX"]

Idle ==
    /\ pc = "start"
    /\ tempCreated = FALSE /\ tempExists = FALSE
    /\ file_type = "none" /\ disk = <<>> /\ next = 0
    /\ file_list = <<>> /\ idx = 0 /\ out = <<>>
    /\ error = "none" /\ raised = 0 /\ rmtrees = 0

Init ==
    /\ Idle
    /\ param \in Params
    /\ privileged \in BOOLEAN
    /\ ev = NoEvidence /\ verdict = NoVerdict

session == <<param, privileged, ev, verdict>>

(***************************************************************************)
(* _invoke, lines 25-36: the two input checks.                             *)
(***************************************************************************)
InvokeMissing ==
    /\ pc = "start" /\ param.type = "none"
    /\ out' = Append(out, Text("error-missing", 0))
    /\ pc' = "y_missing"
    /\ UNCHANGED <<session, tempCreated, tempExists, file_type, disk, next, file_list,
                   idx, error, raised, rmtrees>>

InvokeWrongType ==
    /\ pc = "start" /\ param.type = "str"
    /\ out' = Append(out, Text("error-type", 0))
    /\ pc' = "y_type"
    /\ UNCHANGED <<session, tempCreated, tempExists, file_type, disk, next, file_list,
                   idx, error, raised, rmtrees>>

\* resumed after the yield of line 30 or 35: the raise; no try block is open
ResumeInputError ==
    /\ pc \in {"y_missing", "y_type"}
    /\ raised' = raised + 1
    /\ pc' = "raised"
    /\ UNCHANGED <<session, tempCreated, tempExists, file_type, disk, next, file_list,
                   idx, out, error, rmtrees>>

(***************************************************************************)
(* Lines 39-53: the temporary directory, the staged file, the detection.   *)
(* The staged file is always named compressed_file; param.filename is      *)
(* not read.  The staged entry of disk does not repeat the bytes: they     *)
(* are BlobBytes(param.blob).                                              *)
(***************************************************************************)
Stage ==
    /\ pc = "start" /\ param.type = "File"
    /\ tempCreated' = TRUE /\ tempExists' = TRUE
    /\ disk' = <<Entry(temp_file_path, "file", "rw", <<>>, 0)>>
    /\ file_type' = DetectFileType(temp_file_path, BlobBytes(param.blob),
                                   BlobProbe(param.blob)).type
    /\ pc' = "dispatch"
    /\ UNCHANGED <<session, next, file_list, idx, out, error, raised, rmtrees>>

\* An exception inside the try block: the except clause (lines 81-83) yields
\* the failure message and stays suspended there.
Except(kind, d) ==
    /\ error' = kind
    /\ disk' = d
    /\ out' = Append(out, Text("error-failed", 0))
    /\ pc' = "y_except"
    /\ UNCHANGED <<file_list, idx>>

\* The extractor returned: line 70, the manifest.
Listed(d) ==
    /\ disk' = d
    /\ file_list' = get_file_list(d, extract_dir)
    /\ idx' = 1
    /\ pc' = "listed"
    /\ UNCHANGED <<out, error>>

Extracted(r) == IF r.exc = "none" THEN Listed(r.disk) ELSE Except(r.exc, r.disk)

ExtractZip ==
    /\ pc = "dispatch" /\ file_type = "zip"
    /\ Extracted(extract_zip(param.blob, disk, privileged))
    /\ UNCHANGED <<session, tempCreated, tempExists, file_type, next, raised, rmtrees>>

ExtractRar ==
    /\ pc = "dispatch" /\ file_type = "rar"
    /\ Extracted(extract_flagged(param.blob, disk, privileged))
    /\ UNCHANGED <<session, tempCreated, tempExists, file_type, next, raised, rmtrees>>

Extract7z ==
    /\ pc = "dispatch" /\ file_type = "7z"
    /\ Extracted(extract_flagged(param.blob, disk, privileged))
    /\ UNCHANGED <<session, tempCreated, tempExists, file_type, next, raised, rmtrees>>

\* _extract_tar: tarfile.open and tar.getmembers()
ExtractTar ==
    /\ pc = "dispatch" /\ file_type \in {"tar", "tar.gz", "tar.bz2"}
    /\ next' = 1
    /\ pc' = "tar"
    /\ UNCHANGED <<session, tempCreated, tempExists, file_type, disk, file_list, idx,
                   out, error, raised, rmtrees>>

\* safe_extract: the next member, checked and then extracted
SafeExtractStep ==
    /\ pc = "tar" /\ next <= Len(param.blob.members)
    /\ LET r == SafeExtractMember(param.blob.members, next, disk, privileged)
       IN  IF r.exc = "none"
           THEN /\ disk' = r.disk
                /\ next' = next + 1
                /\ UNCHANGED <<pc, file_list, idx, out, error>>
           ELSE /\ Except(r.exc, r.disk)
                /\ UNCHANGED next
    /\ UNCHANGED <<session, tempCreated, tempExists, file_type, raised, rmtrees>>

\* safe_extract: no member is left
SafeExtractDone ==
    /\ pc = "tar" /\ next > Len(param.blob.members)
    /\ Listed(disk)
    /\ UNCHANGED <<session, tempCreated, tempExists, file_type, next, raised, rmtrees>>

\* lines 63-66: no extractor for the verdict; the message is yielded
Unsupported ==
    /\ pc = "dispatch"
    /\ file_type \notin {"zip", "rar", "7z", "tar", "tar.gz", "tar.bz2"}
    /\ out' = Append(out, Text("error-unsupported", 0))
    /\ pc' = "y_unsupported"
    /\ UNCHANGED <<session, tempCreated, tempExists, file_type, disk, next, file_list,
                   idx, error, raised, rmtrees>>

\* resumed after the yield of line 66: line 67 raises inside the try block,
\* and InvokeServerUnavailableError is an Exception, so the except clause runs
ResumeUnsupported ==
    /\ pc = "y_unsupported"
    /\ Except("unsupported", disk)
    /\ UNCHANGED <<session, tempCreated, tempExists, file_type, next, raised, rmtrees>>

(***************************************************************************)
(* Lines 71-79: one result per manifest entry, then the summary.           *)
(***************************************************************************)
\* the number the summary message reports
SummaryCount(list) == Len(list)

EmitNext ==
    /\ pc \in {"listed", "y_item"}
    /\ IF idx <= Len(file_list)
       THEN LET file_info == file_list[idx]
                file_path == Join(extract_dir, file_info.path)
                r         == ReadBytes(disk, file_path, privileged)
            IN  IF file_info.type = "file" /\ ~r.ok
                THEN Except("permission", disk)
                ELSE /\ out' = Append(out,
                                 IF file_info.type = "file"
                                 THEN BlobMessage(r.data, file_info.name)
                                 ELSE Text("skip", 0))
                     /\ idx' = idx + 1
                     /\ pc' = "y_item"
                     /\ UNCHANGED <<disk, file_list, error>>
       ELSE /\ out' = Append(out, Text("summary", SummaryCount(file_list)))
            /\ pc' = "y_summary"
            /\ UNCHANGED <<disk, file_list, idx, error>>
    /\ UNCHANGED <<session, tempCreated, tempExists, file_type, next, raised, rmtrees>>

(***************************************************************************)
(* Lines 85-87: the finally clause, on the way out of the try block.       *)
(***************************************************************************)
CleanupOnReturnOnly(exit) ==
    IF exit = "return"
    THEN /\ disk' = RmtreeRest(disk, privileged)
         /\ tempExists' = (RmtreeRest(disk, privileged) # <<>>)
         /\ rmtrees' = rmtrees + 1
    ELSE UNCHANGED <<disk, tempExists, rmtrees>>

Cleanup(exit) ==
    /\ disk' = RmtreeRest(disk, privileged)
    /\ tempExists' = (RmtreeRest(disk, privileged) # <<>>)
    /\ rmtrees' = rmtrees + 1

\* resumed after the summary: the generator returns
ResumeSummary ==
    /\ pc = "y_summary"
    /\ Cleanup("return")
    /\ pc' = "returned"
    /\ UNCHANGED <<session, tempCreated, file_type, next, file_list, idx, out, error, raised>>

\* resumed after the yield of line 83: line 84 raises to the caller
ResumeExcept ==
    /\ pc = "y_except"
    /\ Cleanup("raise")
    /\ raised' = raised + 1
    /\ pc' = "raised"
    /\ UNCHANGED <<session, tempCreated, file_type, next, file_list, idx, out, error>>

Suspended == {"y_missing", "y_type", "y_unsupported", "y_item", "y_summary", "y_except"}

\* The caller drops the suspended generator: GeneratorExit is thrown at the
\* yield; it is no Exception, so only the finally clause runs, if the yield
\* is inside the try block.
Close ==
    /\ pc \in Suspended
    /\ IF pc \in {"y_missing", "y_type"}
       THEN UNCHANGED <<disk, tempExists, rmtrees>>
       ELSE Cleanup("close")
    /\ pc' = "closed"
    /\ UNCHANGED <<session, tempCreated, file_type, next, file_list, idx, out, error, raised>>

Next ==
    \/ InvokeMissing \/ InvokeWrongType \/ ResumeInputError
    \/ Stage
    \/ ExtractZip \/ ExtractRar \/ Extract7z
    \/ ExtractTar \/ SafeExtractStep \/ SafeExtractDone
    \/ Unsupported \/ ResumeUnsupported
    \/ EmitNext
    \/ ResumeSummary \/ ResumeExcept \/ Close

Spec == Init /\ [][Next]_vars

(***************************************************************************)
(* The detection specification: _detect_file_type on every evidence.       *)
(***************************************************************************)
InitDetect ==
    /\ Idle
    /\ param = NoFile /\ privileged = FALSE
    /\ ev \in Evidence
    /\ verdict = NoVerdict

Detect ==
    /\ verdict.type = "none"
    /\ verdict' = DetectFileType(ev.path, ev.content, ev.probe)
    /\ UNCHANGED <<pc, param, privileged, tempCreated, tempExists, file_type, disk, next,
                   file_list, idx, out, error, raised, rmtrees, ev>>

NextDetect == Detect

SpecDetect == InitDetect /\ [][NextDetect]_vars

(***************************************************************************)
(* Properties.                                                             *)
(***************************************************************************)
TarTypes == {"tar", "tar.gz", "tar.bz2"}

\* the archive members that have been written to disk
WrittenMembers == { disk[i].member : i \in 1..Len(disk) } \ {0}

\* the entries of disk that lie in the directory the archive is extracted to
InDestination == { i \in 1..Len(disk) : Below(extract_dir, disk[i].path) }

\* an extracted directory the process may not write to still holds an entry
RemovalBlocked ==
    /\ ~privileged
    /\ \E i, j \in 1..Len(disk) :
          /\ disk[i].kind = "dir" /\ disk[i].mode = "ro"
          /\ Parent(disk[j].path) = disk[i].path

\* C1 as stated: once an invocation that created a temporary directory has
\* returned or raised, that directory does not exist.
C1_TempDirGone ==
    (tempCreated /\ pc \in {"returned", "raised"}) => ~tempExists

\* C1 as amended: once an invocation that created a temporary directory has
\* returned or raised, the finally clause has run the recursive removal
\* exactly once, and the directory does not exist unless that removal failed
\* (its errors are ignored): an unprivileged process and an extracted
\* directory without write permission that still holds an entry.
C1_CleanupOnEveryExit ==
    (tempCreated /\ pc \in {"returned", "raised"}) =>
        /\ rmtrees = 1
        /\ tempExists => RemovalBlocked
        /\ ~tempExists => disk = <<>>

C1_Witness ==
    /\ pc = "raised" /\ error = "traversal"
    /\ tempCreated /\ ~tempExists /\ rmtrees = 1

\* C2: during tar extraction a member is written only inside the destination
\* directory, at a directory boundary.
C2_TarWritesInsideDestination ==
    file_type \in TarTypes =>
        \A i \in 1..Len(disk) : disk[i].member > 0 => Below(extract_dir, disk[i].path)

\* the check of safe_extract on one member
Rejected(m) == ~is_within_directory(extract_dir, Join(extract_dir, m.name))

FirstRejected(members) ==
    IF \E i \in 1..Len(members) : Rejected(members[i])
    THEN CHOOSE i \in 1..Len(members) :
            Rejected(members[i]) /\ \A j \in 1..(i-1) : ~Rejected(members[j])
    ELSE 0

\* C3: tar members are checked and written one by one in archive order; at
\* the first member the check rejects, extraction stops with the traversal
\* error, that member and the members after it are not written, and what is
\* on disk is the members before it.
C3_AbortAtFirstRejected ==
    (file_type \in TarTypes /\ pc \in {"tar", "y_except"}) =>
        LET k == FirstRejected(param.blob.members)
        IN  /\ pc = "tar" => WrittenMembers = 1..(next - 1)
            /\ k > 0 =>
                 /\ next <= k
                 /\ WrittenMembers \subseteq 1..(k - 1)
                 /\ pc = "y_except" => error \in {"traversal", "permission"}
                 /\ (pc = "y_except" /\ error = "traversal") =>
                        next = k /\ WrittenMembers = 1..(k - 1)
            /\ (pc = "y_except" /\ error = "traversal") => k > 0

C3_Witness ==
    /\ pc = "y_except" /\ error = "traversal"
    /\ Len(param.blob.members) = 3 /\ next = 2
    /\ WrittenMembers = {1}

\* C4: a zip archive with an encrypted entry anywhere in its catalog fails
\* with the password error, and no entry of it is in the destination.
C4_EncryptedZipWritesNothing ==
    ( /\ param.type = "File" /\ param.blob.fmt = "zip" /\ ~param.blob.corrupt
      /\ \E i \in 1..Len(param.blob.members) : IsEncrypted(param.blob.members[i])
      /\ pc \notin {"start", "dispatch"} ) =>
        /\ error = "password"
        /\ pc \in {"y_except", "raised", "closed"}
        /\ InDestination = {}
        /\ WrittenMembers = {}

C4_Witness ==
    /\ pc = "y_except" /\ error = "password"
    /\ param.blob.fmt = "zip" /\ Len(param.blob.members) = 3
    /\ ~IsEncrypted(param.blob.members[1])
    /\ IsEncrypted(param.blob.members[3])
    /\ InDestination = {}

\* a freshly built archive: plain files and directories with relative names,
\* nothing encrypted, at least one member
Fresh(b) ==
    /\ b.fmt \in {"zip", "tar", "tar.gz"} /\ ~b.corrupt /\ b.members # <<>>
    /\ \A i \in 1..Len(b.members) :
          /\ b.members[i].name \in {NameA, NameB, NameD, NameDB}
          /\ b.members[i].mode = "rw"
          /\ ~IsEncrypted(b.members[i])

FilesOf(b) == { i \in 1..Len(b.members) : b.members[i].kind = "file" }

\* C5: a fresh zip, tar or tar.gz blob is detected as a supported format and
\* extracted: the invocation returns, the manifest's files are the archive's
\* files, and each is surfaced with its content.
C5_RoundTrip ==
    (param.type = "File" /\ Fresh(param.blob) /\ pc \in {"returned", "raised"}) =>
        /\ pc = "returned"
        /\ { file_list[i].path : i \in { j \in 1..Len(file_list) : file_list[j].type = "file" } }
             = { param.blob.members[i].name : i \in FilesOf(param.blob) }
        /\ { <<out[i].filename, out[i].blob>> : i \in { j \in 1..Len(out) : out[j].kind = "blob" } }
             = { <<Basename(param.blob.members[i].name), param.blob.members[i].data>> :
                    i \in FilesOf(param.blob) }

Diagnostics ==
    { i \in 1..Len(out) :
        out[i].kind = "text"
          /\ out[i].tag \in {"error-missing", "error-type", "error-unsupported", "error-failed"} }

Results == { i \in 1..Len(out) : out[i].kind = "blob" \/ out[i].tag = "skip" }

\* C6: an invocation that fails has emitted exactly one diagnostic message
\* and raised exactly one error, and no extracted-file or skipped-directory
\* result before it.
C6_SingleTerminalError ==
    pc = "raised" =>
        /\ raised = 1
        /\ Cardinality(Diagnostics) = 1
        /\ Results = {}

\* C7: the number in the summary message is the number of extracted-file
\* results emitted.
C7_SummaryCountsFiles ==
    pc \in {"y_summary", "returned"} =>
        out[Len(out)].n = Cardinality({ i \in 1..Len(out) : out[i].kind = "blob" })

Detected == verdict.type # "none"

HasZipMagic(content) ==
    \/ StartsWith(content, MagicZipLocal)
    \/ StartsWith(content, MagicZipEnd)
    \/ StartsWith(content, MagicZipSpan)

HasMagic(content) ==
    \/ HasZipMagic(content)
    \/ StartsWith(content, MagicRar) \/ StartsWith(content, Magic7z)
    \/ StartsWith(content, MagicGzip) \/ StartsWith(content, MagicBz2)

HasSuffix(path) ==
    \E suf \in {SufTar, SufTarGz, SufTgz, SufTarBz2, SufTbz2, SufZip, SufRar, Suf7z} :
        EndsWith(Lower(Basename(path)), suf)

\* C8: a zip, rar or 7z magic prefix decides the verdict whatever the name's
\* suffix, and nothing is trial-opened.
C8_MagicBytePriority ==
    Detected =>
        /\ HasZipMagic(ev.content) => verdict = [type |-> "zip", probes |-> <<>>]
        /\ StartsWith(ev.content, MagicRar) => verdict = [type |-> "rar", probes |-> <<>>]
        /\ StartsWith(ev.content, Magic7z) => verdict = [type |-> "7z", probes |-> <<>>]

C8_Witness ==
    /\ Detected /\ verdict.type = "zip"
    /\ StartsWith(ev.content, MagicZipEnd)
    /\ EndsWith(ev.path, SufRar)

\* C9: a file of fewer than 100 bytes with no magic prefix and no recognised
\* suffix is Unknown, and nothing is trial-opened or scanned.
C9_SizeGate ==
    (Detected /\ Len(ev.content) < 100 /\ ~HasMagic(ev.content) /\ ~HasSuffix(ev.path)) =>
        verdict = [type |-> "unknown", probes |-> <<>>]

C9_Witness ==
    /\ Detected /\ verdict = [type |-> "unknown", probes |-> <<>>]
    /\ Len(ev.content) = 99 /\ ~HasMagic(ev.content) /\ ~HasSuffix(ev.path)
    /\ ev.probe["zip"] = "entries"
    /\ Contains(ev.content, SigZipCentral)

\* C10: with no magic prefix, a name ending in .tar, or a file of at least
\* 262 bytes with "ustar" at bytes 257..261, is Tar, decided before the
\* suffix rules, the size gate and the trial-opens; a shorter file never
\* matches through the ustar window.
C10_TarStructuralRule ==
    (Detected /\ ~HasMagic(ev.content)) =>
        /\ ( \/ EndsWith(Lower(Basename(ev.path)), SufTar)
             \/ (Len(ev.content) >= 262 /\ SubSeq(ev.content, 258, 262) = Ustar) )
              => verdict = [type |-> "tar", probes |-> <<>>]
        /\ (Len(ev.content) < 262 /\ ~EndsWith(Lower(Basename(ev.path)), SufTar)
              /\ verdict.type = "tar") => verdict.probes # <<>>

====
